---- MODULE Spec2Model ----
(***************************************************************************)
(* Model of the QSOL demo view (src/src/App.tsx).                          *)
(*                                                                         *)
(* App owns the hook state activeTab.  ChecklistSection owns the hook      *)
(* state checked; that component is mounted only while App renders it, so  *)
(* its hook state exists only while it is mounted.  Every user event runs  *)
(* its handler and the synchronous re-render that React flushes before the *)
(* next discrete event is dispatched; `view` is the output of that render. *)
(***************************************************************************)
EXTENDS Integers, Sequences, FiniteSets

VARIABLES
    activeTab,       \* App: useState<'principles' | 'checklist'>
    checklistState,  \* hook state of ChecklistSection: <<>> unmounted, <<checked>> mounted
    view,            \* what the last render produced
    renderPending,   \* a state update is queued and its re-render has not run yet
    lastClick,       \* history: value carried by the last tab click, "none" before any
    toggleParity,    \* history: per index, is the number of toggles since mount odd
    lastToggle,      \* history: <<snapshot before the last event>> if that event was a toggle
    doubleToggle,    \* history: <<snapshot before the last two events>> if both toggled one index
    script,          \* history: progress of the "check 0..9 once each, then uncheck 0" scenario
    checkedAtLeave,  \* history: <<checked>> as the checklist view was last left, kept until
                     \*          the first event after the view is entered again
    reloaded         \* history: the last event was a page reload

vars == <<activeTab, checklistState, view, renderPending, lastClick, toggleParity,
          lastToggle, doubleToggle, script, checkedAtLeave, reloaded>>

----------------------------------------------------------------------------
(* Static data and pure helpers                                            *)

\* The two values of the activeTab union type.
Tabs == {"principles", "checklist"}

\* The checklist array literal (item texts abbreviated), in source order.
checklist ==
    << "Component is < 200 lines", "Props have explicit types",
       "No unused imports", "Event handlers have clear names",
       "No magic numbers", "Keys on list items are stable",
       "No console.logs", "Dependencies are justified",
       "Component does ONE thing", "Understandable in < 5 min" >>

\* The constraints array literal of ConstraintsSection, in source order.
constraints ==
    << [ category |-> "Component Size",
         rules |-> << [label |-> "Single components", value |-> "< 200 lines", pass |-> TRUE],
                      [label |-> "Page components", value |-> "< 400 lines", pass |-> TRUE],
                      [label |-> "Custom hooks", value |-> "< 100 lines", pass |-> TRUE] >> ],
       [ category |-> "Performance",
         rules |-> << [label |-> "First render", value |-> "< 100ms", pass |-> TRUE],
                      [label |-> "Bundle size", value |-> "< 200KB gzipped", pass |-> TRUE],
                      [label |-> "Re-renders", value |-> "Minimal", pass |-> TRUE] >> ],
       [ category |-> "Dependencies",
         rules |-> << [label |-> "Always use", value |-> "React, Tailwind, shadcn/ui", pass |-> TRUE],
                      [label |-> "Use sparingly", value |-> "recharts, date-fns", pass |-> TRUE],
                      [label |-> "Avoid", value |-> "lodash, moment, axios", pass |-> FALSE] >> ] >>

\* JavaScript arr[idx] for a 0-based idx: undefined past the end.
At(arr, idx) == IF idx + 1 \in DOMAIN arr THEN arr[idx + 1] ELSE "undefined"

\* Faulty variant: indices counted from 1.
MapIndicesOneBased(arr) == 1 .. Len(arr)

\* Array.prototype.map hands the callback the indices 0 .. length-1.
MapIndices(arr) == 0 .. (Len(arr) - 1)

\* Math.round of the rational num/den (den > 0, num >= 0): floor(num/den + 1/2).
MathRound(num, den) == (2 * num + den) \div (2 * den)

\* Faulty variant: the "* 100" left out.
ProgressFraction(size) == MathRound(size, Len(checklist))

\* Faulty variant: Math.round(checked.size / checklist.length) * 100.
ProgressMisplacedParen(size) == MathRound(size, Len(checklist)) * 100

\* progress = Math.round((checked.size / checklist.length) * 100).  The
\* double-precision error of the quotient is far below 1/2, so rounding the
\* exact rational gives the same integer.
Progress(size) == MathRound(size * 100, Len(checklist))

\* Faulty variant: progress >= 90.
ShowBannerAtLeast90(progress) == progress >= 90

\* {progress === 100 && <banner/>}
ShowBanner(progress) == progress = 100

\* Faulty variant: both buttons compare the tab with 'principles'.
ButtonVariantCopyPaste(tab, value) == IF tab = "principles" THEN "default" ELSE "outline"

\* variant={activeTab === value ? 'default' : 'outline'}
ButtonVariant(tab, value) == IF tab = value THEN "default" ELSE "outline"

\* Faulty variant: the two branches of the ternary swapped.
ContentSectionsInverted(tab) ==
    IF tab = "principles" THEN {"ChecklistSection"} ELSE {"ConstraintsSection"}

\* {activeTab === 'principles' ? <ConstraintsSection /> : <ChecklistSection />}
\* as the set of content sections on the page.
ContentSections(tab) ==
    IF tab = "principles" THEN {"ConstraintsSection"} ELSE {"ChecklistSection"}

\* Faulty variant: the initial tab restored from what was active before the
\* reload, as if it had been saved.
InitialActiveTabRestored(previous) == previous

\* useState<'principles' | 'checklist'>('principles'): the initial value is the
\* literal, whatever the tab was before the page was reloaded.
InitialActiveTab(previous) == "principles"

\* Faulty variant: every click flips the tab, whatever button was clicked.
SetActiveTabFlip(cur, value) == IF cur = "principles" THEN "checklist" ELSE "principles"

\* Faulty variant: the first button passes a tag outside the union type.
SetActiveTabTypo(cur, value) == IF value = "principles" THEN "constraints" ELSE value

\* onClick={() => setActiveTab(value)}: the state is replaced by the value.
SetActiveTab(cur, value) == value

\* Faulty variant: the delete branch missing.
ToggleCheckAddOnly(captured, idx) == captured \cup {idx}

\* Faulty variant: newChecked.clear() in place of newChecked.delete(idx).
ToggleCheckClear(captured, idx) ==
    IF idx \in captured THEN {} ELSE captured \cup {idx}

\* toggleCheck: copy the captured set, delete idx if present, else add it.
ToggleCheck(captured, idx) ==
    IF idx \in captured THEN captured \ {idx} ELSE captured \cup {idx}

\* Faulty variant: the array reversed in place (arr.reverse()) before mapping.
ItemTextsReversed(arr) ==
    [idx \in 0 .. (Len(arr) - 1) |-> arr[Len(arr) - idx]]

\* checklist.map((item, idx) => <label key={idx}>...{item}</label>): the text
\* shown in row idx.
ItemTexts(arr) == [idx \in MapIndices(arr) |-> At(arr, idx)]

\* Faulty variant: ChecklistSection stays mounted (only hidden) once it has
\* been shown.
ReconcileKeepAlive(tab, state) ==
    IF state = <<>> /\ "ChecklistSection" \in ContentSections(tab)
    THEN << {} >> ELSE state

\* Faulty variant: ChecklistSection remounted by every render of App (a key
\* that changes with each render).
ReconcileRemount(tab, state) ==
    IF "ChecklistSection" \in ContentSections(tab) THEN << {} >> ELSE <<>>

\* React reconciliation of the content area: ChecklistSection keeps its hook
\* state while it stays rendered, gets useState(new Set()) when it is mounted,
\* and loses its state when it is no longer rendered.
Reconcile(tab, state) ==
    IF "ChecklistSection" \in ContentSections(tab)
    THEN IF state = <<>> THEN << {} >> ELSE state
    ELSE <<>>

\* Faulty variant: the two class names of the ternary swapped.
TextStruckInverted(checked, idx) == idx \notin checked

\* className={checked.has(idx) ? 'text-gray-500 line-through' : 'text-gray-700'}:
\* is the text of row idx struck through.
TextStruck(checked, idx) == idx \in checked

\* Faulty variant: the checkbox asks the set for the row number idx + 1.
BoxCheckedOffByOne(checked, idx) == (idx + 1) \in checked

\* <input type="checkbox" checked={checked.has(idx)} />
BoxChecked(checked, idx) == idx \in checked

\* Render output of ChecklistSection for the hook state `checked`.
RenderChecklist(checked) ==
    LET progress == Progress(Cardinality(checked))
    IN  [ captured |-> checked,
          progress |-> progress,
          barWidth |-> progress,
          boxes    |-> [idx \in MapIndices(checklist) |-> BoxChecked(checked, idx)],
          strike   |-> [idx \in MapIndices(checklist) |-> TextStruck(checked, idx)],
          items    |-> ItemTexts(checklist),
          banner   |-> ShowBanner(progress) ]

\* Render output of App.
Render(tab, state) ==
    [ variant   |-> [value \in Tabs |-> ButtonVariant(tab, value)],
      content   |-> ContentSections(tab),
      constraints |-> IF "ConstraintsSection" \in ContentSections(tab)
                      THEN << constraints >> ELSE <<>>,
      checklist |-> IF state = <<>> THEN <<>> ELSE << RenderChecklist(state[1]) >> ]

----------------------------------------------------------------------------
(* History bookkeeping                                                     *)

NoParity == [idx \in 0 .. (Len(checklist) - 1) |-> FALSE]

ScriptStart == [stage |-> "checking", once |-> {}]

\* What the user sees of the checklist state, for comparing two moments.
Snapshot(state, v) ==
    [ checked  |-> state[1],
      progress |-> v.checklist[1].progress,
      barWidth |-> v.checklist[1].barWidth,
      banner   |-> v.checklist[1].banner ]

\* Follows the scenario "from the empty set toggle every item once, in any
\* order, then toggle item 0"; any other toggle leaves the scenario.
ScriptStep(s, idx) ==
    IF s.stage = "checking" /\ idx \notin s.once
    THEN [s EXCEPT !.once = @ \cup {idx}]
    ELSE IF s.stage = "checking" /\ s.once = 0 .. (Len(checklist) - 1) /\ idx = 0
    THEN [s EXCEPT !.stage = "unchecked0"]
    ELSE [stage |-> "off", once |-> {}]

----------------------------------------------------------------------------
(* State machine                                                           *)

Init ==
    /\ activeTab = "principles"
    /\ checklistState = <<>>
    /\ view = Render("principles", <<>>)
    /\ renderPending = FALSE
    /\ lastClick = "none"
    /\ toggleParity = NoParity
    /\ lastToggle = <<>>
    /\ doubleToggle = <<>>
    /\ script = ScriptStart
    /\ checkedAtLeave = <<>>
    /\ reloaded = FALSE

\* A click on one of the two tab buttons; `value` is what its onClick passes.
SelectTab(value) ==
    LET tab   == SetActiveTab(activeTab, value)
        state == Reconcile(tab, checklistState)
        kept  == checklistState # <<>> /\ state # <<>>
    IN  /\ activeTab' = tab
        /\ checklistState' = state
        /\ view' = Render(tab, state)
        /\ renderPending' = FALSE
        /\ lastClick' = value
        /\ toggleParity' = IF kept THEN toggleParity ELSE NoParity
        /\ script' = IF kept THEN script ELSE ScriptStart
        /\ lastToggle' = <<>>
        /\ doubleToggle' = <<>>
        /\ checkedAtLeave' =
              IF checklistState # <<>> /\ state = <<>> THEN checklistState
              ELSE IF checklistState = <<>> THEN checkedAtLeave ELSE <<>>
        /\ reloaded' = FALSE

\* A change event on the checkbox of item idx: possible only for a checkbox
\* that the last render put on the page.
ToggleItem(idx) ==
    /\ view.checklist # <<>>
    /\ idx \in DOMAIN view.checklist[1].boxes
    /\ LET newChecked == ToggleCheck(view.checklist[1].captured, idx)
           state      == << newChecked >>
           before     == Snapshot(checklistState, view)
       IN  /\ checklistState' = state
           /\ view' = Render(activeTab, state)
           /\ renderPending' = FALSE
           /\ toggleParity' = [toggleParity EXCEPT ![idx] = ~@]
           /\ script' = ScriptStep(script, idx)
           /\ lastToggle' = << [idx |-> idx, before |-> before] >>
           /\ doubleToggle' =
                 IF lastToggle # <<>> /\ lastToggle[1].idx = idx
                 THEN << lastToggle[1].before >> ELSE <<>>
    /\ checkedAtLeave' = <<>>
    /\ reloaded' = FALSE
    /\ UNCHANGED <<activeTab, lastClick>>

\* The page is reloaded: the module runs again and every useState starts from
\* its initial value; nothing was written anywhere a reload could read.
Reload ==
    LET tab   == InitialActiveTab(activeTab)
        state == Reconcile(tab, <<>>)
    IN  /\ activeTab' = tab
        /\ checklistState' = state
        /\ view' = Render(tab, state)
        /\ renderPending' = FALSE
        /\ lastClick' = "none"
        /\ toggleParity' = NoParity
        /\ script' = ScriptStart
        /\ lastToggle' = <<>>
        /\ doubleToggle' = <<>>
        /\ checkedAtLeave' = <<>>
        /\ reloaded' = TRUE

\* The candidate indices reach one past the array; ToggleItem admits only
\* those that have a checkbox on the page.
Next ==
    \/ \E value \in Tabs : SelectTab(value)
    \/ \E idx \in 0 .. Len(checklist) : ToggleItem(idx)
    \/ Reload

Spec == Init /\ [][Next]_vars

----------------------------------------------------------------------------
(* Change events dispatched within one task                                *)
(*                                                                         *)
(* Spec is the page under user input: every event is a task of its own and *)
(* React has re-rendered before the next one is handled.  When change      *)
(* events are dispatched from script within one task (input.click() twice, *)
(* as a test driver does), a root that flushes discrete updates in a       *)
(* microtask runs the second handler before the re-render: the handler on   *)
(* the page is still the closure of the last render.                       *)

\* The onChange handler alone: toggleCheck on the closure of the last render,
\* setChecked queued, no re-render yet.
ChangeEvent(idx) ==
    /\ view.checklist # <<>>
    /\ idx \in DOMAIN view.checklist[1].boxes
    /\ checklistState' = << ToggleCheck(view.checklist[1].captured, idx) >>
    /\ renderPending' = TRUE
    /\ lastToggle' = << [idx |-> idx, before |-> Snapshot(checklistState, view)] >>
    /\ checkedAtLeave' = <<>>
    /\ UNCHANGED <<activeTab, view, lastClick, toggleParity, doubleToggle,
                   script, reloaded>>

\* The queued re-render runs.
FlushRender ==
    /\ renderPending
    /\ view' = Render(activeTab, checklistState)
    /\ renderPending' = FALSE
    /\ UNCHANGED <<activeTab, checklistState, lastClick, toggleParity, lastToggle,
                   doubleToggle, script, checkedAtLeave, reloaded>>

NextBatched ==
    \/ \E value \in Tabs : SelectTab(value)
    \/ \E idx \in 0 .. Len(checklist) : ChangeEvent(idx)
    \/ FlushRender

SpecBatched == Init /\ [][NextBatched]_vars

----------------------------------------------------------------------------
Mounted == checklistState # <<>>

\* The set held by the checked hook (only meaningful while Mounted).
checked == checklistState[1]

\* The checklist view as last rendered (only meaningful while Mounted).
shown == view.checklist[1]

----------------------------------------------------------------------------
(* Claims                                                                  *)

\* C1: for every index i in 0..9, after any sequence of toggle events on the
\* mounted checklist, i is in the checked set iff the number of toggles
\* applied to i is odd (toggleParity[i] is that number mod 2 = 1).
C1_MembershipIsToggleParity ==
    Mounted =>
        \A idx \in 0 .. (Len(checklist) - 1) : (idx \in checked) <=> toggleParity[idx]

\* C1 witness: an index toggled an odd number of times is checked, right
\* after some index has been toggled twice in a row.
C1_Witness ==
    /\ Mounted
    /\ doubleToggle # <<>>
    /\ \E idx \in 0 .. (Len(checklist) - 1) : toggleParity[idx] /\ idx \in checked
    /\ \E idx \in 0 .. (Len(checklist) - 1) : ~toggleParity[idx] /\ idx \notin checked

\* C2: a select-tab event leaves the checked-item set alone, so on coming
\* back to the checklist view the items checked when it was left are still
\* checked.
C2_CheckedSurvivesTabSwitch ==
    [][ (checklistState = <<>> /\ checkedAtLeave # <<>> /\ checklistState' # <<>>)
            => checklistState' = checkedAtLeave ]_vars

\* C3: after any sequence of tab clicks, interleaved with any toggles, the
\* active tab is the value carried by the last tab click.
C3_ActiveTabIsLastClick ==
    lastClick # "none" => activeTab = lastClick

\* C3 witness: the last click went back to 'principles' after items had been
\* toggled in the checklist view.
C3_Witness ==
    /\ lastClick = "principles"
    /\ activeTab = "principles"
    /\ checkedAtLeave # <<>>
    /\ Cardinality(checkedAtLeave[1]) >= 2

\* C4: the displayed progress is the integer nearest to 100 * |checked| /
\* |checklist| (halves rounded up), lies in 0..100, and the bar width shows
\* the same value.
C4_ProgressIsRoundedShare ==
    Mounted =>
        LET p == shown.progress
            n == Cardinality(checked)
            L == Len(checklist)
        IN  /\ p \in 0 .. 100
            /\ 2 * p * L - L <= 200 * n
            /\ 200 * n < 2 * p * L + L
            /\ shown.barWidth = p

\* C4 witness: three items checked and 30 displayed.
C4_Witness ==
    Mounted /\ Cardinality(checked) = 3 /\ shown.progress = 30 /\ shown.barWidth = 30

\* C5: in the checklist view the completion banner is shown iff the number
\* of checked items equals the number of checklist items.
C5_BannerIffAllChecked ==
    Mounted => (shown.banner <=> Cardinality(checked) = Len(checklist))

\* C5 witness: every item checked and the banner on the page.
C5_Witness ==
    Mounted /\ shown.banner /\ checked = 0 .. (Len(checklist) - 1)

\* C6: the checked set only ever holds indices of checklist items, 0..9.
C6_CheckedWithinIndices ==
    Mounted => checked \subseteq 0 .. (Len(checklist) - 1)

\* C6 witness: the first and the last item are both checked.
C6_Witness ==
    Mounted /\ 0 \in checked /\ (Len(checklist) - 1) \in checked
    /\ Cardinality(checked) = 2

\* C7: toggling one index twice in a row gives back the checked set, the
\* progress and the banner visibility that were there before the two toggles.
C7_DoubleToggleIsIdentity ==
    doubleToggle # <<>> =>
        /\ Mounted
        /\ Snapshot(checklistState, view) = doubleToggle[1]
        /\ \A idx \in 0 .. (Len(checklist) - 1) :
              (idx \in checked) <=> (idx \in doubleToggle[1].checked)

\* C7 witness: an index was just unchecked and checked again while other
\* items stay checked.
C7_Witness ==
    /\ doubleToggle # <<>>
    /\ lastToggle[1].idx \in checked
    /\ Cardinality(checked) >= 3

\* C8: from the empty set, once items 0..9 have each been toggled once (in
\* any order) progress reads 100 and the banner is shown; the toggle of item
\* 0 that follows makes progress read 90 and hides the banner.
C8_CheckAllThenUncheckFirst ==
    Mounted =>
        /\ (script.stage = "checking" /\ script.once = 0 .. 9)
              => (shown.progress = 100 /\ shown.banner)
        /\ script.stage = "unchecked0"
              => (shown.progress = 90 /\ ~shown.banner /\ 0 \notin checked)

\* C8 witness: the scenario has run to its end.
C8_Witness ==
    Mounted /\ script.stage = "unchecked0" /\ script.once = 0 .. 9

\* C9: exactly one content section is rendered: the constraints section iff
\* the active tab is 'principles', the checklist section iff it is
\* 'checklist'.
C9_ExactlyOneSection ==
    /\ Cardinality(view.content) = 1
    /\ ("ConstraintsSection" \in view.content) <=> (activeTab = "principles")
    /\ ("ChecklistSection" \in view.content) <=> (activeTab = "checklist")
    /\ (view.checklist # <<>>) <=> ("ChecklistSection" \in view.content)

\* C9 witness: the checklist section alone is on the page, with an item
\* checked in it.
C9_Witness ==
    /\ view.content = {"ChecklistSection"}
    /\ lastClick = "checklist"
    /\ Mounted /\ checked # {}

\* C10: the active tab is always one of 'principles' and 'checklist', and
\* every event leads to a state that renders one of the two known sections.
C10_ActiveTabIsValid ==
    /\ activeTab \in Tabs
    /\ view.content # {}
    /\ view.content \subseteq {"ConstraintsSection", "ChecklistSection"}
    /\ DOMAIN view.variant = Tabs

\* C10 witness: a tab click and then a toggle have been handled.
C10_Witness ==
    /\ activeTab = "checklist"
    /\ lastClick = "checklist"
    /\ lastToggle # <<>>

\* C11: no event changes the static data: the checklist view always shows
\* the same 10 item texts in source order, and the constraints view always
\* shows the same three categories with their rule rows.
C11_StaticDataUnchanged ==
    /\ Mounted =>
          /\ DOMAIN shown.items = 0 .. 9
          /\ \A idx \in 0 .. 9 : shown.items[idx] = checklist[idx + 1]
    /\ view.constraints # <<>> =>
          /\ view.constraints[1] = constraints
          /\ Len(view.constraints[1]) = 3
          /\ \A c \in 1 .. 3 : Len(view.constraints[1][c].rules) = 3

\* C11 witness: the constraints view is shown again after items were
\* toggled in the checklist view.
C11_Witness ==
    /\ view.constraints # <<>>
    /\ checkedAtLeave # <<>>
    /\ Cardinality(checkedAtLeave[1]) = 1

\* Symmetric difference of two sets.
SymDiff(S, T) == (S \ T) \cup (T \ S)

C13_ToggleIsSymmetricDifference ==
    lastToggle # <<>> =>
        LET i == lastToggle[1].idx
            b == lastToggle[1].before.checked
        IN  /\ Mounted
            /\ checked = SymDiff(b, {i})
            /\ (i \in checked) <=> (i \notin b)
            /\ \A j \in (0 .. (Len(checklist) - 1)) \ {i} : (j \in checked) <=> (j \in b)
            /\ Cardinality(checked) - Cardinality(b) \in {1, -1}

\* C13 witness: the last toggle removed an item while others stay checked.
C13_Witness ==
    /\ lastToggle # <<>>
    /\ lastToggle[1].idx \notin checked
    /\ lastToggle[1].idx \in lastToggle[1].before.checked
    /\ Cardinality(checked) = 2

\* C14: a toggle-item event leaves the active tab unchanged, and the active
\* tab after any toggle is 'checklist'.
C14_ToggleKeepsTab ==
    [][ (\E idx \in 0 .. Len(checklist) : ToggleItem(idx))
          => (activeTab' = activeTab /\ activeTab' = "checklist") ]_vars

\* C14 witness: four items have been toggled on and the tab is 'checklist'.
C14_Witness ==
    /\ lastToggle # <<>>
    /\ activeTab = "checklist"
    /\ Cardinality(checked) = 4

\* C15: nothing is persisted: before any event, and after a reload from any
\* state, the active tab is 'principles' and no item is checked; the
\* checklist view opened from there shows an empty set, progress 0 and no
\* banner.
C15_ReloadResets ==
    /\ []((reloaded \/ lastClick = "none") =>
            (activeTab = "principles" /\ checklistState = <<>> /\ view.checklist = <<>>))
    /\ [][ (lastClick = "none" /\ checklistState' # <<>>) =>
            (checklistState' = << {} >>
               /\ view'.checklist[1].progress = 0
               /\ ~view'.checklist[1].banner) ]_vars

\* C15 witness: the page has just been reloaded.
C15_Witness ==
    reloaded /\ lastClick = "none" /\ activeTab = "principles" /\ ~Mounted

\* C16: the checked state exists only while the checklist view is mounted:
\* there is none while the active tab is 'principles', and every entry into
\* the checklist view from the constraints view starts with an empty set,
\* progress 0 and no banner.
C16_CheckedLivesWithChecklistView ==
    /\ [](activeTab = "principles" => checklistState = <<>>)
    /\ [][ (activeTab = "principles" /\ activeTab' = "checklist") =>
            (checklistState' = << {} >>
               /\ view'.checklist[1].progress = 0
               /\ ~view'.checklist[1].banner) ]_vars

\* C16 witness: the checklist view has just been entered again after it was
\* left with items checked, and it shows nothing checked.
C16_Witness ==
    /\ Mounted
    /\ checkedAtLeave # <<>>
    /\ checkedAtLeave[1] # {}
    /\ checked = {}
    /\ shown.progress = 0
    /\ ~shown.banner

\* C17: a toggle event is enabled only while the active tab is 'checklist':
\* the checkboxes are on the page only inside the checklist section.
C17_ToggleOnlyInChecklistTab ==
    /\ (view.checklist # <<>>) => activeTab = "checklist"
    /\ \A idx \in 0 .. Len(checklist) :
          (ENABLED ToggleItem(idx)) => activeTab = "checklist"

\* C17 witness: back on the constraints view after toggling, no toggle is
\* enabled.
C17_Witness ==
    /\ activeTab = "principles"
    /\ checkedAtLeave # <<>>
    /\ checkedAtLeave[1] # {}
    /\ \A idx \in 0 .. Len(checklist) : ~ENABLED ToggleItem(idx)

\* C18: selecting the tab that is already active changes nothing: the active
\* tab, the checked set and everything rendered stay as they are.
C18_SelectActiveTabIsNoOp ==
    [][ \A value \in Tabs :
          (value = activeTab /\ SelectTab(value)) =>
             (activeTab' = activeTab /\ checklistState' = checklistState /\ view' = view) ]_vars

\* C18 witness: 'checklist' was clicked while it was active and the items
\* checked before the click are still checked.
C18_Witness ==
    /\ Mounted
    /\ Cardinality(checked) >= 2
    /\ lastToggle = <<>>
    /\ lastClick = "checklist"

\* C19: progress is always a multiple of 10 equal to 10 * |checked|, and a
\* toggle changes it by +10 when it adds the item and by -10 when it removes
\* it.
C19_ProgressStepsByTen ==
    /\ Mounted => (shown.progress = 10 * Cardinality(checked) /\ shown.progress % 10 = 0)
    /\ lastToggle # <<>> =>
          shown.progress - lastToggle[1].before.progress =
              IF lastToggle[1].idx \in checked THEN 10 ELSE -10

\* C19 witness: the last toggle took progress down from 60 to 50.
C19_Witness ==
    /\ lastToggle # <<>>
    /\ lastToggle[1].before.progress = 60
    /\ shown.progress = 50

\* C20: exactly one tab button has the 'default' variant, the other has
\* 'outline', and the 'default' one is the button of the active tab.
C20_OneHighlightedTabButton ==
    /\ \A value \in Tabs : view.variant[value] \in {"default", "outline"}
    /\ Cardinality({value \in Tabs : view.variant[value] = "default"}) = 1
    /\ Cardinality({value \in Tabs : view.variant[value] = "outline"}) = 1
    /\ \A value \in Tabs : (view.variant[value] = "default") <=> (value = activeTab)

\* C20 witness: 'Quick Checklist' is the highlighted button after the tab was
\* switched there and back and there again.
C20_Witness ==
    /\ view.variant["checklist"] = "default"
    /\ view.variant["principles"] = "outline"
    /\ checkedAtLeave # <<>>
    /\ Mounted

\* C21: in the checklist view, for every index i, the checkbox of item i is
\* shown checked and its text is struck through if and only if i is in the
\* checked set.
C21_RowsShowMembership ==
    Mounted =>
        /\ DOMAIN shown.boxes = 0 .. (Len(checklist) - 1)
        /\ DOMAIN shown.strike = 0 .. (Len(checklist) - 1)
        /\ \A idx \in 0 .. (Len(checklist) - 1) :
              /\ shown.boxes[idx] <=> (idx \in checked)
              /\ shown.strike[idx] <=> (idx \in checked)

\* C21 witness: after an item was unchecked again, its row shows unchecked
\* plain text while another row shows a checked box and struck text.
C21_Witness ==
    /\ Mounted
    /\ lastToggle # <<>>
    /\ lastToggle[1].idx \notin checked
    /\ ~shown.boxes[lastToggle[1].idx]
    /\ ~shown.strike[lastToggle[1].idx]
    /\ \E idx \in 0 .. (Len(checklist) - 1) :
          idx \in checked /\ shown.boxes[idx] /\ shown.strike[idx]

====
